---- MODULE Spec2Model ----
(***************************************************************************)
(* Model of the weather feature pipeline: the fusion of the per-source     *)
(* record lists (create_ml_dataset), the feature engineering               *)
(* (add_engineered_features) and the comfort score                         *)
(* (calculate_comfort_score) of src/features/feature_builder.py.           *)
(*                                                                         *)
(* Representation.                                                         *)
(*  - A Python str is a sequence of one-character strings.                 *)
(*  - A Python value read from a source record is a tagged record: PyNone, *)
(*    PyStr(s) or PyInt(n).                                                *)
(*  - A float is an integer number of hundredths (Scale); an optional      *)
(*    float is <<>> (None / NaN) or <<v>>.  The arithmetic of the comfort  *)
(*    score is exact in hundredths for every sub-score of the code.        *)
(*  - A timestamp is a record of its civil fields (UTC); NaT is <<>>.      *)
(*  - A text payload is a str; its lines and tokens are computed by the    *)
(*    str methods of the parsers (strip, split, startswith).               *)
(***************************************************************************)
EXTENDS Integers, Sequences, FiniteSets, TLC

VARIABLES
    pc,           \* position inside create_ml_dataset
    raw_asos,     \* raw_data["asos"] rows iterated so far
    raw_pm10,     \* raw_data["pm10"] rows iterated so far
    raw_uv,       \* raw_data["uv"] rows iterated so far
    all_records,  \* the list all_records of create_ml_dataset
    merged_df,    \* the frame returned by create_ml_dataset
    df,           \* the frame handed to add_engineered_features on its own
    df_out,       \* the frame add_engineered_features returned for df
    score_in,     \* the frame handed to calculate_comfort_score on its own
    score_out,    \* the Series calculate_comfort_score returned for score_in
    kind,         \* which parser is called: "asos", "pm10" or "uv"
    lines,        \* the lines the payload is made of
    payload,      \* raw_data, the text handed to the parser
    now,          \* what datetime.now(tz=timezone.utc) returns during the call
    parsed,       \* the list the parser returned (one list per source in a run)
    inputs,       \* the arguments of process_and_store_weather_data
    stored_keys,  \* the dict stored_keys of process_and_store_weather_data
    result,       \* what process_and_store_weather_data returned
    bucket,       \* the objects of the S3 bucket, in key order
    saved,        \* the calls of save_ml_dataset so far: timestamp and frame
    loaded,       \* what load_latest_ml_dataset returned
    xcom,         \* the return values the tasks of a DAG run pushed
    task_state,   \* the state of each task of a DAG run
    try_number    \* the tries each task of a DAG run has made

\* the state of create_ml_dataset and of the feature functions
frameVars == <<raw_asos, raw_pm10, raw_uv, all_records, merged_df,
               df, df_out, score_in, score_out>>

\* the state of a parser call
parseVars == <<kind, lines, payload, now, parsed>>

\* the state of a call of process_and_store_weather_data
procVars == <<inputs, stored_keys, result>>

\* the object store and what was saved to and loaded from it
storeVars == <<bucket, saved, loaded>>

\* the state of a DAG run
dagVars == <<xcom, task_state, try_number>>

vars == <<pc, frameVars, parseVars, procVars, storeVars, dagVars>>

\* no parser call is in progress
ParseIdle ==
    /\ kind = <<>>
    /\ lines = <<>>
    /\ payload = <<>>
    /\ now = <<>>
    /\ parsed = <<>>

\* no call of process_and_store_weather_data is in progress
ProcIdle ==
    /\ inputs = <<>>
    /\ stored_keys = <<>>
    /\ result = <<>>

\* the object store is not part of the run
StoreIdle ==
    /\ bucket = <<>>
    /\ saved = <<>>
    /\ loaded = <<>>

\* no DAG run is in progress
DagIdle ==
    /\ xcom = <<>>
    /\ task_state = <<>>
    /\ try_number = <<>>

\* no call of create_ml_dataset or of a feature function is in progress
FrameIdle ==
    /\ raw_asos = <<>>
    /\ raw_pm10 = <<>>
    /\ raw_uv = <<>>
    /\ all_records = <<>>
    /\ merged_df = <<>>
    /\ df = <<>>
    /\ df_out = <<>>
    /\ score_in = <<>>
    /\ score_out = <<>>

----------------------------------------------------------------------------
(* Bounds *)

\* total number of source rows given to one call of create_ml_dataset
MaxRecords == 3

\* hundredths: two decimal places
Scale == 10 * 10

----------------------------------------------------------------------------
(* Python values *)

PyNone == [t |-> "None"]
PyStr(s) == [t |-> "str", s |-> s]
PyInt(n) == [t |-> "int", n |-> n]

NaN == <<>>
Num(v) == <<v>>
IsNa(x) == x = <<>>
NotNa(x) == x # <<>>
Val(x) == x[1]

NaT == <<>>

Digits == {"0", "1", "2", "3", "4", "5", "6", "7", "8", "9"}

DigitVal(c) ==
    CASE c = "0" -> 0 [] c = "1" -> 1 [] c = "2" -> 2 [] c = "3" -> 3
      [] c = "4" -> 4 [] c = "5" -> 5 [] c = "6" -> 6 [] c = "7" -> 7
      [] c = "8" -> 8 [] c = "9" -> 9

\* the printable ASCII characters in code point order, from the blank
\* (the double quote, the backslash and the backtick are held by their names)
Ascii ==
    <<" ", "!", "quote", "#", "$", "%", "&", "'", "(", ")", "*", "+", ",", "-", ".", "/",
      "0", "1", "2", "3", "4", "5", "6", "7", "8", "9", ":", ";", "<", "=", ">", "?",
      "@", "A", "B", "C", "D", "E", "F", "G", "H", "I", "J", "K", "L", "M", "N", "O",
      "P", "Q", "R", "S", "T", "U", "V", "W", "X", "Y", "Z", "[", "backslash", "]", "^", "_",
      "backtick", "a", "b", "c", "d", "e", "f", "g", "h", "i", "j", "k", "l", "m", "n", "o",
      "p", "q", "r", "s", "t", "u", "v", "w", "x", "y", "z", "{", "|", "}", "~">>

OrdTable ==
    [c \in {Ascii[i] : i \in DOMAIN Ascii} |->
        31 + (CHOOSE i \in DOMAIN Ascii : Ascii[i] = c)]

\* code point of a character
Ord(c) == OrdTable[c]

\* str.replace(c, '')
RECURSIVE Replace(_, _)
Replace(s, c) ==
    IF s = <<>> THEN <<>>
    ELSE IF Head(s) = c THEN Replace(Tail(s), c)
    ELSE <<Head(s)>> \o Replace(Tail(s), c)

\* str.isdigit()
IsDigit(s) == s # <<>> /\ \A i \in 1..Len(s) : s[i] \in Digits

RECURSIVE DigitsToNat(_)
DigitsToNat(s) ==
    IF s = <<>> THEN 0
    ELSE DigitsToNat(SubSeq(s, 1, Len(s) - 1)) * 10 + DigitVal(s[Len(s)])

RECURSIVE Pow10(_)
Pow10(n) == IF n = 0 THEN 1 ELSE 10 * Pow10(n - 1)

CountChar(s, c) == Cardinality({i \in 1..Len(s) : s[i] = c})

\* float(str) raises ValueError unless the text is an optional leading '-',
\* then digits with at most one '.', and at least one digit
FloatStrRaises(s) ==
    LET neg  == s # <<>> /\ s[1] = "-"
        body == IF neg THEN Tail(s) ELSE s
    IN  ~ (/\ \A i \in 1..Len(body) : body[i] \in Digits \cup {"."}
           /\ CountChar(body, ".") <= 1
           /\ \E i \in 1..Len(body) : body[i] \in Digits)

\* float(str) of an accepted text, in hundredths
FloatStr(s) ==
    LET neg  == s # <<>> /\ s[1] = "-"
        body == IF neg THEN Tail(s) ELSE s
        p    == IF CountChar(body, ".") = 1
                THEN CHOOSE i \in 1..Len(body) : body[i] = "."
                ELSE Len(body) + 1
        ip   == SubSeq(body, 1, p - 1)
        fp   == SubSeq(body, p + 1, Len(body))
        mag  == DigitsToNat(ip) * Scale + (DigitsToNat(fp) * Scale) \div Pow10(Len(fp))
    IN  IF neg THEN 0 - mag ELSE mag

\* float(x) of a Python value: does it raise, and its value when it does not
FloatRaises(x) ==
    IF x.t = "int" THEN FALSE
    ELSE IF x.t = "str" THEN FloatStrRaises(x.s)
    ELSE TRUE

Float(x) == IF x.t = "int" THEN x.n * Scale ELSE FloatStr(x.s)

\* truth value of a Python value
Truthy(x) ==
    IF x.t = "None" THEN FALSE
    ELSE IF x.t = "str" THEN x.s # <<>>
    ELSE x.n # 0

\* str(x) of a str value
Str(x) == x.s

\* lexicographic order of two str by code point (Python's str comparison)
RECURSIVE StrLessFrom(_, _, _)
StrLessFrom(a, b, i) ==
    IF i > Len(b) THEN FALSE
    ELSE IF i > Len(a) THEN TRUE
    ELSE IF Ord(a[i]) # Ord(b[i]) THEN Ord(a[i]) < Ord(b[i])
    ELSE StrLessFrom(a, b, i + 1)

\* a < b, each operand taken once as a value
StrLess(a, b) == \E x \in {a}, y \in {b} : StrLessFrom(x, y, 1)

----------------------------------------------------------------------------
(* Timestamps *)

Timestamp(y, mo, d, h, mi, s) ==
    [year |-> y, month |-> mo, day |-> d, hour |-> h, minute |-> mi, second |-> s,
     microsecond |-> 0]

\* days since 1970-01-01 of a civil date (proleptic Gregorian calendar)
DaysFromCivil(y, m, d) ==
    LET yy  == IF m <= 2 THEN y - 1 ELSE y
        era == yy \div 400
        yoe == yy - era * 400
        mp  == IF m > 2 THEN m - 3 ELSE m + 9
        doy == (153 * mp + 2) \div 5 + d - 1
        doe == yoe * 365 + yoe \div 4 - yoe \div 100 + doy
    IN  era * 146097 + doe - 719468

\* seconds since the epoch
Epoch(ts) ==
    ((DaysFromCivil(ts.year, ts.month, ts.day) * 24 + ts.hour) * 60 + ts.minute) * 60
        + ts.second

\* the order of two instants
TsLess(a, b) ==
    \/ Epoch(a) < Epoch(b)
    \/ Epoch(a) = Epoch(b) /\ a.microsecond < b.microsecond

\* day of week counted from Sunday = 0
DayOfWeek_FromSunday(ts) == (DaysFromCivil(ts.year, ts.month, ts.day) + 4) % 7

\* Series.dt.dayofweek: 0 = Monday .. 6 = Sunday (1970-01-01 was a Thursday)
DayOfWeek(ts) == (DaysFromCivil(ts.year, ts.month, ts.day) + 3) % 7

\* pd.to_datetime(observed_at, utc=True) of an aware UTC datetime or of None
ToDatetime(x) == IF x = PyNone THEN NaT ELSE x

----------------------------------------------------------------------------
(* Fusion: create_ml_dataset *)

\* record["station_id"] == station_id and record["datetime"] == datetime_val
\* (NaT compares unequal to everything, itself included)
KeyMatch(record, station_id, datetime_val) ==
    /\ record.station_id = station_id
    /\ record.datetime # NaT
    /\ datetime_val # NaT
    /\ record.datetime = datetime_val

\* index of the first record of recs with the key, 0 when there is none
FirstMatch(recs, station_id, datetime_val) ==
    IF \E i \in 1..Len(recs) : KeyMatch(recs[i], station_id, datetime_val)
    THEN CHOOSE i \in 1..Len(recs) :
            /\ KeyMatch(recs[i], station_id, datetime_val)
            /\ \A j \in 1..(i - 1) : ~KeyMatch(recs[j], station_id, datetime_val)
    ELSE 0

\* the guard of the temperature expression
AsosValueIsDigits(value) ==
    /\ Truthy(value)
    /\ IsDigit(Replace(Replace(Str(value), "."), "-"))

\* the temperature expression raises (float() of a text that passed the guard)
AsosRaises(row) == AsosValueIsDigits(row.value) /\ FloatRaises(row.value)

\* the record built from one ASOS row
AsosRecord(row) ==
    [station_id  |-> row.station_id,
     datetime    |-> ToDatetime(row.observed_at),
     temperature |-> IF AsosValueIsDigits(row.value)
                     THEN Num(Float(row.value)) ELSE NaN,
     pm10        |-> NaN,
     uv_uvb      |-> NaN,
     uv_uva      |-> NaN,
     uv_euv      |-> NaN]

\* the PM10 number check: None stays None, float() failure gives None
Pm10Value(value) ==
    IF value = PyNone THEN NaN
    ELSE IF FloatRaises(value) THEN NaN
    ELSE Num(Float(value))

\* the UV number check: None, float() failure and the -999.0 sentinel give None
UvValue(value) ==
    IF value = PyNone THEN NaN
    ELSE IF FloatRaises(value) THEN NaN
    ELSE IF Float(value) = (0 - 999) * Scale THEN NaN
    ELSE Num(Float(value))

NewRecord(station_id, datetime_val) ==
    [station_id  |-> station_id,
     datetime    |-> datetime_val,
     temperature |-> NaN,
     pm10        |-> NaN,
     uv_uvb      |-> NaN,
     uv_uva      |-> NaN,
     uv_euv      |-> NaN]

\* MergePm10 without the search for an existing record
MergePm10_NoLookup(recs, row) ==
    Append(recs, [NewRecord(row.station_id, ToDatetime(row.observed_at))
                     EXCEPT !.pm10 = Pm10Value(row.value)])

\* all_records after one PM10 row
MergePm10(recs, row) ==
    LET datetime_val == ToDatetime(row.observed_at)
        pm10_val     == Pm10Value(row.value)
        i            == FirstMatch(recs, row.station_id, datetime_val)
    IN  IF i # 0
        THEN [recs EXCEPT ![i].pm10 = pm10_val]
        ELSE Append(recs, [NewRecord(row.station_id, datetime_val)
                              EXCEPT !.pm10 = pm10_val])

\* all_records after one UV row
MergeUv(recs, row) ==
    LET datetime_val == ToDatetime(row.observed_at)
        uvb_val      == UvValue(row.value)
        uva_val      == UvValue(row.uva_value)
        euv_val      == UvValue(row.euv_value)
        i            == FirstMatch(recs, row.station_id, datetime_val)
    IN  IF i # 0
        THEN [recs EXCEPT ![i].uv_uvb = uvb_val,
                          ![i].uv_uva = uva_val,
                          ![i].uv_euv = euv_val]
        ELSE Append(recs, [NewRecord(row.station_id, datetime_val)
                              EXCEPT !.uv_uvb = uvb_val,
                                     !.uv_uva = uva_val,
                                     !.uv_euv = euv_val])

\* DataFrame.dropna(subset=["datetime"])
RECURSIVE DropNaDatetime(_)
DropNaDatetime(recs) ==
    IF recs = <<>> THEN <<>>
    ELSE IF Head(recs).datetime = NaT THEN DropNaDatetime(Tail(recs))
    ELSE <<Head(recs)>> \o DropNaDatetime(Tail(recs))

\* the order of sort_values(["datetime", "station_id"]) on rows with a datetime
RowLess(a, b) ==
    \/ TsLess(a.datetime, b.datetime)
    \/ /\ a.datetime = b.datetime
       /\ StrLess(a.station_id, b.station_id)

\* insert r after every row that is not greater than it (stable)
RECURSIVE InsertSorted(_, _)
InsertSorted(sorted, r) ==
    IF sorted = <<>> THEN <<r>>
    ELSE IF RowLess(r, Head(sorted)) THEN <<r>> \o sorted
    ELSE <<Head(sorted)>> \o InsertSorted(Tail(sorted), r)

\* sort_values left out
SortValues_NoSort(recs) == recs

\* DataFrame.sort_values(["datetime", "station_id"])
RECURSIVE SortValues(_)
SortValues(recs) ==
    IF recs = <<>> THEN <<>>
    ELSE InsertSorted(SortValues(SubSeq(recs, 1, Len(recs) - 1)), recs[Len(recs)])

----------------------------------------------------------------------------
(* Comfort score: calculate_comfort_score *)

\* the temperature sub-score with the neutral 50 for a missing value
TempScore_MissingNeutral(x) ==
    IF IsNa(x) THEN 50
    ELSE IF 15 * Scale <= Val(x) /\ Val(x) <= 22 * Scale THEN 90
    ELSE IF 10 * Scale <= Val(x) /\ Val(x) <= 25 * Scale THEN 70
    ELSE IF 5 * Scale <= Val(x) /\ Val(x) <= 30 * Scale THEN 50
    ELSE IF 0 <= Val(x) /\ Val(x) <= 35 * Scale THEN 20
    ELSE 10

\* the temperature bands with the optimal and the extreme sub-score exchanged
TempScore_Exchanged(x) ==
    IF IsNa(x) THEN 100
    ELSE IF 15 * Scale <= Val(x) /\ Val(x) <= 22 * Scale THEN 10
    ELSE IF 10 * Scale <= Val(x) /\ Val(x) <= 25 * Scale THEN 70
    ELSE IF 5 * Scale <= Val(x) /\ Val(x) <= 30 * Scale THEN 50
    ELSE IF 0 <= Val(x) /\ Val(x) <= 35 * Scale THEN 20
    ELSE 90

\* the temperature sub-score of one value
TempScore(x) ==
    IF IsNa(x) THEN 100
    ELSE IF 15 * Scale <= Val(x) /\ Val(x) <= 22 * Scale THEN 90
    ELSE IF 10 * Scale <= Val(x) /\ Val(x) <= 25 * Scale THEN 70
    ELSE IF 5 * Scale <= Val(x) /\ Val(x) <= 30 * Scale THEN 50
    ELSE IF 0 <= Val(x) /\ Val(x) <= 35 * Scale THEN 20
    ELSE 10

\* the PM10 sub-score of one value
Pm10Score(x) ==
    IF IsNa(x) THEN 50
    ELSE IF Val(x) <= 15 * Scale THEN 90
    ELSE IF Val(x) <= 35 * Scale THEN 70
    ELSE IF Val(x) <= 75 * Scale THEN 50
    ELSE IF Val(x) <= 150 * Scale THEN 30
    ELSE 10

\* scores * w/10 + sub * (10 - w)/10, in hundredths
Blend(scores, sub, w) == (scores * w + sub * Scale * (10 - w)) \div 10

Bool(b) == IF b THEN 1 ELSE 0

\* clip with the upper limit only
Clip_UpperOnly(s) == IF s > 100 * Scale THEN 100 * Scale ELSE s

\* np.clip(scores, 0, 100)
Clip(s) == IF s < 0 THEN 0 ELSE IF s > 100 * Scale THEN 100 * Scale ELSE s

\* the score without the rush-hour adjustment
ComfortScoreOfRow_NoRushAdjust(row) ==
    LET s0 == 50 * Scale
        s1 == Blend(s0, TempScore(row.temperature), 5)
        s2 == Blend(s1, Pm10Score(row.pm10), 7)
        s4 == s2 + Bool(row.is_weekend) * 5 * Scale
        s5 == s4 - Bool(row.temp_extreme) * 20 * Scale
    IN  Clip(s5)

\* the score of one row of a frame that has the five columns the function
\* tests for (temperature, pm10, is_rush_hour, is_weekend, temp_extreme), in
\* hundredths
ComfortScoreOfRow(row) ==
    LET s0 == 50 * Scale
        s1 == Blend(s0, TempScore(row.temperature), 5)
        s2 == Blend(s1, Pm10Score(row.pm10), 7)
        s3 == s2 - Bool(row.is_rush_hour) * 10 * Scale
        s4 == s3 + Bool(row.is_weekend) * 5 * Scale
        s5 == s4 - Bool(row.temp_extreme) * 20 * Scale
    IN  Clip(s5)

\* the Series of scores of a frame
calculate_comfort_score(frame) ==
    [i \in 1..Len(frame) |-> ComfortScoreOfRow(frame[i])]

----------------------------------------------------------------------------
(* Feature engineering: add_engineered_features *)

RushHours == {7, 8, 9, 18, 19, 20}
MorningRushHours == {7, 8, 9}
EveningRushHours == {18, 19, 20}

Season(month) ==
    CASE month \in {12, 1, 2} -> "winter"
      [] month \in {3, 4, 5} -> "spring"
      [] month \in {6, 7, 8} -> "summer"
      [] month \in {9, 10, 11} -> "autumn"

\* pd.cut(temperature, bins=[-999, 0, 10, 20, 30, 999], labels=...): right-closed
\* bins; a missing value and a value outside every bin have no category
TempCategory(x) ==
    IF IsNa(x) THEN NaN
    ELSE IF (0 - 999) * Scale < Val(x) /\ Val(x) <= 0 THEN <<"very_cold">>
    ELSE IF 0 < Val(x) /\ Val(x) <= 10 * Scale THEN <<"cold">>
    ELSE IF 10 * Scale < Val(x) /\ Val(x) <= 20 * Scale THEN <<"mild">>
    ELSE IF 20 * Scale < Val(x) /\ Val(x) <= 30 * Scale THEN <<"warm">>
    ELSE IF 30 * Scale < Val(x) /\ Val(x) <= 999 * Scale THEN <<"hot">>
    ELSE NaN

\* pd.cut(pm10, bins=[0, 30, 80, 150, 999], labels=...)
Pm10Grade(x) ==
    IF IsNa(x) THEN NaN
    ELSE IF 0 < Val(x) /\ Val(x) <= 30 * Scale THEN <<"good">>
    ELSE IF 30 * Scale < Val(x) /\ Val(x) <= 80 * Scale THEN <<"moderate">>
    ELSE IF 80 * Scale < Val(x) /\ Val(x) <= 150 * Scale THEN <<"unhealthy">>
    ELSE IF 150 * Scale < Val(x) /\ Val(x) <= 999 * Scale THEN <<"very_unhealthy">>
    ELSE NaN

Abs(n) == IF n < 0 THEN 0 - n ELSE n

metro_stations ==
    {<<"1", "0", "0">>, <<"1", "0", "1">>, <<"1", "0", "2">>, <<"1", "0", "4">>,
     <<"1", "0", "5">>, <<"1", "0", "8">>, <<"1", "1", "2">>, <<"1", "1", "9">>,
     <<"1", "2", "9">>, <<"1", "3", "3">>}

coastal_stations ==
    {<<"1", "0", "2">>, <<"1", "0", "4">>, <<"1", "1", "5">>, <<"1", "3", "0">>,
     <<"1", "3", "1">>, <<"1", "5", "2">>, <<"1", "5", "6">>, <<"1", "5", "9">>,
     <<"1", "6", "8">>}

\* station_id.str[0] mapped to a region, 'other' when unmapped or empty
Region(station_id) ==
    IF station_id = <<>> THEN "other"
    ELSE CASE station_id[1] = "1" -> "central"
           [] station_id[1] = "2" -> "south"
           [] station_id[1] = "3" -> "east"
           [] station_id[1] = "9" -> "west"
           [] OTHER -> "other"

\* the columns sections 1 to 5 add to one row
EngineeredColumns(row) ==
    LET hour        == row.datetime.hour
        day_of_week == DayOfWeek(row.datetime)
        month       == row.datetime.month
        t           == row.temperature
        p           == row.pm10
        u           == row.uv_uvb
    IN  [hour            |-> hour,
         day_of_week     |-> day_of_week,
         month           |-> month,
         is_rush_hour    |-> hour \in RushHours,
         is_morning_rush |-> hour \in MorningRushHours,
         is_evening_rush |-> hour \in EveningRushHours,
         is_weekday      |-> day_of_week < 5,
         is_weekend      |-> day_of_week >= 5,
         season          |-> Season(month),
         temp_category   |-> TempCategory(t),
         temp_comfort    |-> IF IsNa(t) THEN NaN
                             ELSE Num(20 * Scale - Abs(Val(t) - 20 * Scale)),
         temp_extreme    |-> NotNa(t) /\ (Val(t) < 0 \/ Val(t) > 30 * Scale),
         heating_needed  |-> NotNa(t) /\ Val(t) < 10 * Scale,
         cooling_needed  |-> NotNa(t) /\ Val(t) > 25 * Scale,
         is_metro_area   |-> row.station_id \in metro_stations,
         is_coastal      |-> row.station_id \in coastal_stations,
         region          |-> Region(row.station_id),
         pm10_grade      |-> Pm10Grade(p),
         mask_needed     |-> NotNa(p) /\ Val(p) > 50 * Scale,
         outdoor_activity_ok |-> NotNa(p) /\ Val(p) <= 80 * Scale,
         has_uv          |-> NotNa(u) /\ Val(u) > 0,
         sun_protection_needed |-> NotNa(u) /\ Val(u) * 100 > 2 * Scale]

\* add_engineered_features of a frame whose rows all have a datetime
add_engineered_features(frame) ==
    IF frame = <<>> THEN frame
    ELSE LET cols   == [i \in 1..Len(frame) |-> frame[i] @@ EngineeredColumns(frame[i])]
             scores == calculate_comfort_score(cols)
         IN  [i \in 1..Len(frame) |-> cols[i] @@ [comfort_score |-> scores[i]]]

\* the tail of create_ml_dataset: the frame returned for all_records
FinalFrame(recs) ==
    IF recs # <<>>
    THEN add_engineered_features(SortValues(DropNaDatetime(recs)))
    ELSE <<>>

----------------------------------------------------------------------------
(* Inputs *)

S108 == <<"1", "0", "8">>
S99 == <<"9", "9">>
Stations == {S108, S99}

\* 2025-06-15T08:00:00Z and 2025-06-16T14:00:00Z
T0800 == Timestamp(2025, 6, 15, 8, 0, 0)
T1400 == Timestamp(2025, 6, 16, 14, 0, 0)

\* observed_at of a source row: a timestamp, or absent
ObservedAts == {T0800, T1400, PyNone}

V5p2 == PyStr(<<"5", ".", "2">>)
VNeg3 == PyStr(<<"-", "3">>)
VAbc == PyStr(<<"a", "b", "c">>)
V1p2p3 == PyStr(<<"1", ".", "2", ".", "3">>)
V1m2 == PyStr(<<"1", "-", "2">>)
VSentinel == PyStr(<<"-", "9", "9", "9", ".", "0">>)
V0p03 == PyStr(<<"0", ".", "0", "3">>)

\* the value of an ASOS row is the third token of its line
AsosValues == {V5p2, VNeg3, VAbc, V1p2p3, V1m2}

\* the value of a PM10 row is an int or None
Pm10Values == {PyInt(42), PyNone}

\* the three values of a UV row are the third to fifth tokens of its line
UvValues == {<<V0p03, V5p2, V0p03>>, <<VSentinel, VAbc, V5p2>>}

AsosRows ==
    [station_id : Stations, observed_at : ObservedAts, value : AsosValues]

Pm10Rows ==
    [station_id : Stations, observed_at : ObservedAts, value : Pm10Values]

UvRows ==
    {[station_id |-> s, observed_at |-> o,
      value |-> v[1], uva_value |-> v[2], euv_value |-> v[3]] :
        s \in Stations, o \in ObservedAts, v \in UvValues}

----------------------------------------------------------------------------
(* create_ml_dataset as a state machine: one step per iterated source row *)

RowsRead == Len(raw_asos) + Len(raw_pm10) + Len(raw_uv)

Init ==
    /\ pc = "asos"
    /\ raw_asos = <<>>
    /\ raw_pm10 = <<>>
    /\ raw_uv = <<>>
    /\ all_records = <<>>
    /\ merged_df = <<>>
    /\ df = <<>>
    /\ df_out = <<>>
    /\ score_in = <<>>
    /\ score_out = <<>>
    /\ ParseIdle
    /\ ProcIdle
    /\ StoreIdle
    /\ DagIdle

\* one iteration of the ASOS loop; an exception skips the row
ProcessAsos ==
    /\ pc = "asos"
    /\ RowsRead < MaxRecords
    /\ \E row \in AsosRows :
        /\ raw_asos' = Append(raw_asos, row)
        /\ all_records' = IF AsosRaises(row) THEN all_records
                          ELSE Append(all_records, AsosRecord(row))
    /\ UNCHANGED <<pc, raw_pm10, raw_uv, merged_df, df, df_out, score_in, score_out>>
    /\ UNCHANGED <<parseVars, procVars, storeVars, dagVars>>

\* one iteration of the PM10 loop (the ASOS loop has ended)
ProcessPm10 ==
    /\ pc \in {"asos", "pm10"}
    /\ RowsRead < MaxRecords
    /\ \E row \in Pm10Rows :
        /\ raw_pm10' = Append(raw_pm10, row)
        /\ all_records' = MergePm10(all_records, row)
    /\ pc' = "pm10"
    /\ UNCHANGED <<raw_asos, raw_uv, merged_df, df, df_out, score_in, score_out>>
    /\ UNCHANGED <<parseVars, procVars, storeVars, dagVars>>

\* one iteration of the UV loop (the ASOS and PM10 loops have ended)
ProcessUv ==
    /\ pc \in {"asos", "pm10", "uv"}
    /\ RowsRead < MaxRecords
    /\ \E row \in UvRows :
        /\ raw_uv' = Append(raw_uv, row)
        /\ all_records' = MergeUv(all_records, row)
    /\ pc' = "uv"
    /\ UNCHANGED <<raw_asos, raw_pm10, merged_df, df, df_out, score_in, score_out>>
    /\ UNCHANGED <<parseVars, procVars, storeVars, dagVars>>

\* every loop has ended: build, clean, sort and enrich the frame, and return
Finalize ==
    /\ pc \in {"asos", "pm10", "uv"}
    /\ merged_df' = FinalFrame(all_records)
    /\ pc' = "done"
    /\ UNCHANGED <<raw_asos, raw_pm10, raw_uv, all_records, df, df_out, score_in, score_out>>
    /\ UNCHANGED <<parseVars, procVars, storeVars, dagVars>>

Next == ProcessAsos \/ ProcessPm10 \/ ProcessUv \/ Finalize

Spec == Init /\ [][Next]_vars

----------------------------------------------------------------------------
(* add_engineered_features and calculate_comfort_score called on a frame *)

\* Sunday 08:00 and 14:00, Monday 08:00 and 14:00 (June), a winter Wednesday
FeatureTimes ==
    {T0800, Timestamp(2025, 6, 15, 14, 0, 0),
     Timestamp(2025, 6, 16, 8, 0, 0), T1400,
     Timestamp(2025, 1, 1, 19, 0, 0)}

\* temperatures in degrees: below, on and between the band edges
TempDegrees == {0 - 5, 0, 3, 5, 10, 12, 15, 18, 22, 25, 28, 30, 33, 35, 40}
Temps == {NaN} \cup {Num(d * Scale) : d \in TempDegrees} \cup {Num(2250)}

\* PM10 concentrations: on and next to the band and bin edges
Pm10Levels == {0, 15, 16, 30, 35, 36, 75, 76, 80, 150, 151, 999, 1000}
Pm10s == {NaN} \cup {Num(c * Scale) : c \in Pm10Levels}

\* the fused rows of a frame that has a datetime in every row
FusedRows ==
    [station_id  : {S108},
     datetime    : FeatureTimes,
     temperature : Temps,
     pm10        : Pm10s,
     uv_uvb      : {NaN, Num(3)},
     uv_uva      : {NaN},
     uv_euv      : {NaN}]

\* rows that differ from row a in at most one of datetime, temperature, pm10
FusedVariants(a) ==
    {[a EXCEPT !.datetime = d] : d \in FeatureTimes}
        \cup {[a EXCEPT !.temperature = t] : t \in Temps}
        \cup {[a EXCEPT !.pm10 = p] : p \in Pm10s}

\* the rows of a frame given to calculate_comfort_score by a caller
ScoreRows ==
    [temperature  : Temps,
     pm10         : Pm10s,
     is_rush_hour : BOOLEAN,
     is_weekend   : BOOLEAN,
     temp_extreme : BOOLEAN]

ScoreVariants(a) ==
    {[a EXCEPT !.temperature = t] : t \in Temps}
        \cup {[a EXCEPT !.pm10 = p] : p \in Pm10s}
        \cup {[a EXCEPT !.is_rush_hour = b] : b \in BOOLEAN}

InitFeature ==
    /\ raw_asos = <<>>
    /\ raw_pm10 = <<>>
    /\ raw_uv = <<>>
    /\ all_records = <<>>
    /\ merged_df = <<>>
    /\ df_out = <<>>
    /\ score_out = <<>>
    /\ ParseIdle
    /\ ProcIdle
    /\ StoreIdle
    /\ DagIdle
    /\ \/ /\ pc = "enrich"
          /\ score_in = <<>>
          /\ \/ df = <<>>
             \/ \E a \in FusedRows : \E b \in FusedVariants(a) : df = <<a, b>>
       \/ /\ pc = "score"
          /\ df = <<>>
          /\ \E a \in ScoreRows : \E b \in ScoreVariants(a) : score_in = <<a, b>>

\* a call of add_engineered_features(df)
Enrich ==
    /\ pc = "enrich"
    /\ df_out' = add_engineered_features(df)
    /\ pc' = "enriched"
    /\ UNCHANGED <<raw_asos, raw_pm10, raw_uv, all_records, merged_df,
                   df, score_in, score_out>>
    /\ UNCHANGED <<parseVars, procVars, storeVars, dagVars>>

\* a call of calculate_comfort_score(score_in)
Score ==
    /\ pc = "score"
    /\ score_out' = calculate_comfort_score(score_in)
    /\ pc' = "scored"
    /\ UNCHANGED <<raw_asos, raw_pm10, raw_uv, all_records, merged_df,
                   df, df_out, score_in>>
    /\ UNCHANGED <<parseVars, procVars, storeVars, dagVars>>

NextFeature == Enrich \/ Score

SpecFeature == InitFeature /\ [][NextFeature]_vars

----------------------------------------------------------------------------
(* Properties of the fusion (specification Spec) *)

\* what a well-formed number of the inputs denotes, in hundredths
IsNumeric(v) == v \in {V5p2, VNeg3, V0p03, PyInt(42)}

Denotes(v) ==
    CASE v = V5p2 -> (52 * Scale) \div 10
      [] v = VNeg3 -> 0 - 3 * Scale
      [] v = V0p03 -> (3 * Scale) \div 100
      [] v = PyInt(42) -> 42 * Scale

\* the rows of the returned frame with the key (s, o)
OutKeyRows(s, o) ==
    {i \in DOMAIN merged_df :
        merged_df[i].station_id = s /\ merged_df[i].datetime = o}

\* C1: whatever the three source lists are, the frame create_ml_dataset
\* returns has at most one row per (station_id, datetime) key.
C1_AtMostOneRowPerKey ==
    pc = "done" =>
        \A i, j \in DOMAIN merged_df :
            (/\ merged_df[i].station_id = merged_df[j].station_id
             /\ merged_df[i].datetime = merged_df[j].datetime) => i = j

FusedFields == {"temperature", "pm10", "uv_uvb", "uv_uva", "uv_euv"}

\* C2: a field of a fused record that holds a value after some source row was
\* processed still holds a value after every later source row is processed.
C2_NoFieldCleared ==
    [][\A i \in DOMAIN all_records :
          /\ i \in DOMAIN all_records'
          /\ \A f \in FusedFields :
                NotNa(all_records[i][f]) => NotNa(all_records'[i][f])]_vars

\* the case of C3: one ASOS row and one PM10 row with the same station and the
\* same observed_at, both values well-formed numbers
C3_Case ==
    /\ pc = "done"
    /\ Len(raw_asos) = 1
    /\ Len(raw_pm10) = 1
    /\ raw_asos[1].station_id = raw_pm10[1].station_id
    /\ raw_asos[1].observed_at = raw_pm10[1].observed_at
    /\ raw_asos[1].observed_at # PyNone
    /\ IsNumeric(raw_asos[1].value)
    /\ IsNumeric(raw_pm10[1].value)

\* C3: one ASOS row and one PM10 row with the same key, both with numeric
\* values, give exactly one output row for that key, whose temperature is the
\* ASOS value and whose pm10 is the PM10 value.
C3_OneRowBothFields ==
    C3_Case =>
        LET K == OutKeyRows(raw_asos[1].station_id, raw_asos[1].observed_at)
        IN  /\ Cardinality(K) = 1
            /\ \A i \in K :
                /\ merged_df[i].temperature = Num(Denotes(raw_asos[1].value))
                /\ merged_df[i].pm10 = Num(Denotes(raw_pm10[1].value))

\* witness of C3: the case happened with a negative, fractional-free ASOS text
C3_Witness == C3_Case /\ raw_asos[1].value = VNeg3 /\ Len(merged_df) = 1

\* (datetime, station_id) of a is less than or equal to that of b
KeyLeq(a, b) ==
    \/ Epoch(a.datetime) < Epoch(b.datetime)
    \/ /\ Epoch(a.datetime) = Epoch(b.datetime)
       /\ a.datetime.microsecond < b.datetime.microsecond
    \/ /\ a.datetime = b.datetime
       /\ (a.station_id = b.station_id \/ StrLess(a.station_id, b.station_id))

\* C4: the rows create_ml_dataset returns all have a datetime and are in
\* ascending order of (datetime, station_id).
C4_SortedNoMissingDatetime ==
    pc = "done" =>
        /\ \A i \in DOMAIN merged_df : merged_df[i].datetime # NaT
        /\ \A i \in 1..(Len(merged_df) - 1) : KeyLeq(merged_df[i], merged_df[i + 1])

\* witness of C4: a row without datetime was dropped and two rows that were
\* collected out of order were returned
C4_Witness ==
    /\ pc = "done"
    /\ Len(merged_df) >= 2
    /\ Len(merged_df) < Len(all_records)
    /\ \E i, j \in DOMAIN all_records :
        /\ i < j
        /\ all_records[i].datetime # NaT
        /\ all_records[j].datetime # NaT
        /\ RowLess(all_records[j], all_records[i])

\* source row r, whose value goes to field f, is the only one of rows with its key
SoleOfKey(rows, r) ==
    Cardinality({i \in DOMAIN rows :
        rows[i].station_id = r.station_id /\ rows[i].observed_at = r.observed_at}) = 1

\* the row of r is kept: the returned frame has a row with its key, and field f
\* is missing there when r is the only row of its source with that key
KeptWithMissing(rows, r, f) ==
    LET K == OutKeyRows(r.station_id, r.observed_at)
    IN  /\ K # {}
        /\ SoleOfKey(rows, r) => \A i \in K : IsNa(merged_df[i][f])

\* C10: a source row with a usable key whose value is not a well-formed number
\* is never removed: the returned frame has a row for its key, with the
\* corresponding field missing.
C10_BadValueKeepsRecord ==
    pc = "done" =>
        /\ \A n \in DOMAIN raw_asos :
            (raw_asos[n].observed_at # PyNone /\ ~IsNumeric(raw_asos[n].value))
                => KeptWithMissing(raw_asos, raw_asos[n], "temperature")
        /\ \A n \in DOMAIN raw_pm10 :
            (raw_pm10[n].observed_at # PyNone /\ ~IsNumeric(raw_pm10[n].value))
                => KeptWithMissing(raw_pm10, raw_pm10[n], "pm10")
        /\ \A n \in DOMAIN raw_uv :
            (raw_uv[n].observed_at # PyNone /\ ~IsNumeric(raw_uv[n].uva_value))
                => KeptWithMissing(raw_uv, raw_uv[n], "uv_uva")

----------------------------------------------------------------------------
(* Properties of the features and the score (specification SpecFeature) *)

\* the rows that were scored, with the columns the score reads and the score
Scored ==
    IF pc = "enriched"
    THEN {[temperature   |-> df_out[i].temperature,
           pm10          |-> df_out[i].pm10,
           is_rush_hour  |-> df_out[i].is_rush_hour,
           is_weekend    |-> df_out[i].is_weekend,
           temp_extreme  |-> df_out[i].temp_extreme,
           comfort_score |-> df_out[i].comfort_score] : i \in DOMAIN df_out}
    ELSE IF pc = "scored"
    THEN {score_in[i] @@ [comfort_score |-> score_out[i]] : i \in DOMAIN score_in}
    ELSE {}

\* C5: every scored row, whatever is missing and whatever its flags are, has
\* a comfort score between 0 and 100.
C5_ScoreInRange ==
    \A r \in Scored : 0 <= r.comfort_score /\ r.comfort_score <= 100 * Scale

\* witness of C5: a row was clamped to 0 and a row without temperature scored
C5_Witness ==
    /\ pc = "scored"
    /\ \E r, q \in Scored :
        /\ r.comfort_score = 0
        /\ r.temp_extreme /\ r.is_rush_hour
        /\ IsNa(q.temperature)

\* C6: a row with temperature, pm10 and the UV fields all missing, neither
\* rush-hour nor weekend, has comfort score exactly 50.0.
C6_AllMissingScores50 ==
    pc = "enriched" =>
        \A i \in DOMAIN df_out :
            (/\ IsNa(df_out[i].temperature)
             /\ IsNa(df_out[i].pm10)
             /\ IsNa(df_out[i].uv_uvb)
             /\ IsNa(df_out[i].uv_uva)
             /\ IsNa(df_out[i].uv_euv)
             /\ ~df_out[i].is_rush_hour
             /\ ~df_out[i].is_weekend) => df_out[i].comfort_score = 50 * Scale

\* two scored rows equal in all the score reads but the rush-hour flag
C7_Pair(r, q) ==
    /\ r.temperature = q.temperature
    /\ r.pm10 = q.pm10
    /\ r.is_weekend = q.is_weekend
    /\ r.temp_extreme = q.temp_extreme
    /\ r.is_rush_hour
    /\ ~q.is_rush_hour

\* C7: of two rows that differ only in being rush-hour, the rush-hour row has
\* the strictly smaller comfort score, after the clamp.
C7_RushHourStrictlyLower ==
    \A r, q \in Scored : C7_Pair(r, q) => r.comfort_score < q.comfort_score

\* witness of C7: such a pair was enriched and the rush-hour row was clamped
C7_Witness ==
    /\ pc = "enriched"
    /\ \E r, q \in Scored : C7_Pair(r, q) /\ r.comfort_score = 0

\* C8 as stated: the row of station 108 at 2025-06-15T08:00:00Z is enriched
\* to is_morning_rush, is_weekday and season summer.
C8_WeekdayAsStated ==
    pc = "enriched" =>
        \A i \in DOMAIN df_out :
            (df_out[i].station_id = S108 /\ df_out[i].datetime = T0800) =>
                /\ df_out[i].is_morning_rush
                /\ df_out[i].is_weekday
                /\ df_out[i].season = "summer"

\* C8 amended: the row of station 108 at 2025-06-15T08:00:00Z, a Sunday, is
\* enriched to is_morning_rush, season summer, day_of_week 6, is_weekend and
\* not is_weekday.
C8_SundayMorningRush ==
    pc = "enriched" =>
        \A i \in DOMAIN df_out :
            (df_out[i].station_id = S108 /\ df_out[i].datetime = T0800) =>
                /\ df_out[i].is_morning_rush
                /\ df_out[i].season = "summer"
                /\ df_out[i].day_of_week = 6
                /\ df_out[i].is_weekend
                /\ ~df_out[i].is_weekday

\* witness of C8: the row of station 108 at that hour was enriched
C8_Witness ==
    /\ pc = "enriched"
    /\ \E i \in DOMAIN df_out :
        df_out[i].station_id = S108 /\ df_out[i].datetime = T0800

\* two scored rows equal in pm10, rush-hour and weekend, r in the optimal
\* temperature band 15..22 and q outside 0..35
C9_Pair(r, q) ==
    /\ r.pm10 = q.pm10
    /\ r.is_rush_hour = q.is_rush_hour
    /\ r.is_weekend = q.is_weekend
    /\ NotNa(r.temperature)
    /\ 15 * Scale <= Val(r.temperature) /\ Val(r.temperature) <= 22 * Scale
    /\ NotNa(q.temperature)
    /\ (Val(q.temperature) < 0 \/ Val(q.temperature) > 35 * Scale)

\* C9: with pm10, rush-hour and weekend fixed, a row in the optimal
\* temperature band scores at least as much as a row of extreme temperature.
C9_OptimalAtLeastExtreme ==
    \A r, q \in Scored : C9_Pair(r, q) => r.comfort_score >= q.comfort_score

\* witness of C9: temperature 18 and temperature 40 were enriched side by side
C9_Witness ==
    /\ pc = "enriched"
    /\ \E r, q \in Scored :
        /\ C9_Pair(r, q)
        /\ r.temperature = Num(18 * Scale)
        /\ q.temperature = Num(40 * Scale)

----------------------------------------------------------------------------
(* Text: the str methods of the parsers *)

\* the characters str.strip() removes and str.split() splits on
Whitespace == {" ", "\t", "\n", "\r"}

\* str.lstrip()
RECURSIVE LStrip(_)
LStrip(s) ==
    IF s # <<>> /\ Head(s) \in Whitespace THEN LStrip(Tail(s)) ELSE s

\* str.rstrip()
RECURSIVE RStrip(_)
RStrip(s) ==
    IF s # <<>> /\ s[Len(s)] \in Whitespace
    THEN RStrip(SubSeq(s, 1, Len(s) - 1))
    ELSE s

\* str.strip()
Strip(s) == RStrip(LStrip(s))

\* index of the first character of s that is in the set cs, 0 when none is
FirstIn(s, cs) ==
    IF \E i \in 1..Len(s) : s[i] \in cs
    THEN CHOOSE i \in 1..Len(s) : s[i] \in cs /\ \A j \in 1..(i - 1) : s[j] \notin cs
    ELSE 0

\* str.split(sep) for a separator of one character: empty fields are kept
RECURSIVE SplitOn(_, _)
SplitOn(s, sep) ==
    LET p == FirstIn(s, {sep})
    IN  IF p = 0 THEN <<s>>
        ELSE <<SubSeq(s, 1, p - 1)>> \o SplitOn(SubSeq(s, p + 1, Len(s)), sep)

\* str.split(): the maximal runs of characters that are not whitespace
RECURSIVE Split(_)
Split(s) ==
    LET t == LStrip(s)
        p == FirstIn(t, Whitespace)
    IN  IF t = <<>> THEN <<>>
        ELSE IF p = 0 THEN <<t>>
        ELSE <<SubSeq(t, 1, p - 1)>> \o Split(SubSeq(t, p + 1, Len(t)))

\* str.startswith(prefix)
StartsWith(s, prefix) ==
    Len(s) >= Len(prefix) /\ SubSeq(s, 1, Len(prefix)) = prefix

\* str.endswith(suffix)
EndsWith(s, suffix) ==
    Len(s) >= Len(suffix) /\ SubSeq(s, Len(s) - Len(suffix) + 1, Len(s)) = suffix

\* '\n'.join(parts)
RECURSIVE Join(_, _)
Join(parts, sep) ==
    IF parts = <<>> THEN <<>>
    ELSE IF Len(parts) = 1 THEN parts[1]
    ELSE parts[1] \o <<sep>> \o Join(Tail(parts), sep)

\* the decimal digits of n, zero-padded to width w (the %02d of strftime)
RECURSIVE Pad(_, _)
Pad(n, w) ==
    IF w = 0 THEN <<>>
    ELSE Pad(n \div 10, w - 1) \o <<Ascii[17 + (n % 10)]>>

----------------------------------------------------------------------------
(* Parsers: src/data_ingestion/parsers.py *)

IsLeap(y) == (y % 4 = 0 /\ y % 100 # 0) \/ y % 400 = 0

DaysInMonth(y, m) ==
    IF m = 2 THEN (IF IsLeap(y) THEN 29 ELSE 28)
    ELSE IF m \in {4, 6, 9, 11} THEN 30
    ELSE 31

\* the fields datetime.strptime(s, "%Y%m%d%H%M") reads from a text of twelve
\* digits: each directive takes its full width
StrptimeFields(s) ==
    [year   |-> DigitsToNat(SubSeq(s, 1, 4)),
     month  |-> DigitsToNat(SubSeq(s, 5, 6)),
     day    |-> DigitsToNat(SubSeq(s, 7, 8)),
     hour   |-> DigitsToNat(SubSeq(s, 9, 10)),
     minute |-> DigitsToNat(SubSeq(s, 11, 12))]

\* datetime.strptime(s, "%Y%m%d%H%M") of a text of twelve characters without
\* a blank raises ValueError: a character is no digit or a field is out of range
StrptimeRaises(s) ==
    \/ ~IsDigit(s)
    \/ LET f == StrptimeFields(s)
       IN  \/ f.year < 1
           \/ f.month \notin 1..12
           \/ f.day \notin 1..DaysInMonth(f.year, f.month)
           \/ f.hour > 23
           \/ f.minute > 59

\* datetime.strptime(s, "%Y%m%d%H%M").replace(tzinfo=timezone.utc)
Strptime(s) ==
    LET f == StrptimeFields(s)
    IN  Timestamp(f.year, f.month, f.day, f.hour, f.minute, 0)

\* the k-th reading of the clock after the instant t: every reading of
\* datetime.now() in a call is later than the one before
Tick(t, k) == [t EXCEPT !.microsecond = t.microsecond + k]

\* _parse_datetime_from_line without the fall-back: no value when the text
\* is not a timestamp
parse_datetime_from_line_NoFallback(datetime_str, t_now) ==
    IF Len(datetime_str) = 12 /\ ~StrptimeRaises(datetime_str)
    THEN Strptime(datetime_str)
    ELSE IF Len(datetime_str) = 10 /\ ~StrptimeRaises(<<"2", "0">> \o datetime_str)
    THEN Strptime(<<"2", "0">> \o datetime_str)
    ELSE PyNone

\* _parse_datetime_from_line(datetime_str), t_now being what datetime.now()
\* returns when it is read
parse_datetime_from_line(datetime_str, t_now) ==
    IF Len(datetime_str) = 12
    THEN IF StrptimeRaises(datetime_str) THEN t_now ELSE Strptime(datetime_str)
    ELSE IF Len(datetime_str) = 10
    THEN IF StrptimeRaises(<<"2", "0">> \o datetime_str)
         THEN t_now
         ELSE Strptime(<<"2", "0">> \o datetime_str)
    ELSE t_now

\* data_lines without the test for a leading '#'
DataLines_KeepComments(raw_data) ==
    SelectSeq(SplitOn(Strip(raw_data), "\n"), LAMBDA line : Strip(line) # <<>>)

\* data_lines: the lines of the stripped payload that do not start with '#'
\* and are not blank
DataLines(raw_data) ==
    SelectSeq(SplitOn(Strip(raw_data), "\n"),
              LAMBDA line : ~StartsWith(line, <<"#">>) /\ Strip(line) # <<>>)

\* the record parse_asos_raw appends for a line; n counts the records
\* appended so far, this one included
AsosParsed(line, t_now, n) ==
    LET parts == Split(line)
    IN  [station_id  |-> parts[2],
         observed_at |-> IF parts[1] # <<>>
                         THEN parse_datetime_from_line(parts[1], Tick(t_now, 2 * n - 1))
                         ELSE Tick(t_now, 2 * n - 1),
         category    |-> "asos",
         value       |-> PyStr(parts[3]),
         unit        |-> "",
         created_at  |-> Tick(t_now, 2 * n),
         raw_line    |-> line]

\* the loop of parse_asos_raw over data_lines, from the records so far
RECURSIVE AsosLines(_, _, _)
AsosLines(parsed_data, data_lines, t_now) ==
    IF data_lines = <<>> THEN parsed_data
    ELSE AsosLines(IF Len(Split(Head(data_lines))) >= 3
                   THEN Append(parsed_data,
                               AsosParsed(Head(data_lines), t_now, Len(parsed_data) + 1))
                   ELSE parsed_data,
                   Tail(data_lines), t_now)

parse_asos_raw(raw_data, t_now) == AsosLines(<<>>, DataLines(raw_data), t_now)

\* the record parse_pm10_raw appends for a line (the unit texts are written
\* in ASCII)
Pm10Parsed(line, t_now, n) ==
    LET parts        == SplitOn(line, ",")
        datetime_str == IF parts[1] # <<>> THEN Strip(parts[1]) ELSE <<>>
        pm10_value   == Strip(parts[3])
    IN  [station_id  |-> Strip(parts[2]),
         observed_at |-> IF datetime_str # <<>>
                         THEN parse_datetime_from_line(datetime_str, Tick(t_now, 2 * n - 1))
                         ELSE Tick(t_now, 2 * n - 1),
         category    |-> "pm10",
         value       |-> IF pm10_value # <<>> /\ IsDigit(pm10_value)
                         THEN PyInt(DigitsToNat(pm10_value))
                         ELSE PyNone,
         unit        |-> "ug/m3",
         created_at  |-> Tick(t_now, 2 * n),
         raw_line    |-> line]

\* the loop of parse_pm10_raw over data_lines
RECURSIVE Pm10Lines(_, _, _)
Pm10Lines(parsed_data, data_lines, t_now) ==
    IF data_lines = <<>> THEN parsed_data
    ELSE Pm10Lines(IF Len(SplitOn(Head(data_lines), ",")) >= 3
                   THEN Append(parsed_data,
                               Pm10Parsed(Head(data_lines), t_now, Len(parsed_data) + 1))
                   ELSE parsed_data,
                   Tail(data_lines), t_now)

parse_pm10_raw(raw_data, t_now) == Pm10Lines(<<>>, DataLines(raw_data), t_now)

\* the record parse_uv_raw appends for a line
UvParsed(line, t_now, n) ==
    LET parts == Split(line)
    IN  [station_id  |-> parts[2],
         observed_at |-> IF parts[1] # <<>>
                         THEN parse_datetime_from_line(parts[1], Tick(t_now, 2 * n - 1))
                         ELSE Tick(t_now, 2 * n - 1),
         category    |-> "uv",
         value       |-> PyStr(parts[3]),
         uva_value   |-> PyStr(parts[4]),
         euv_value   |-> PyStr(parts[5]),
         unit        |-> "W/m2",
         created_at  |-> Tick(t_now, 2 * n),
         raw_line    |-> line]

\* the loop of parse_uv_raw over data_lines
RECURSIVE UvLines(_, _, _)
UvLines(parsed_data, data_lines, t_now) ==
    IF data_lines = <<>> THEN parsed_data
    ELSE UvLines(IF Len(Split(Head(data_lines))) >= 5
                 THEN Append(parsed_data,
                             UvParsed(Head(data_lines), t_now, Len(parsed_data) + 1))
                 ELSE parsed_data,
                 Tail(data_lines), t_now)

parse_uv_raw(raw_data, t_now) == UvLines(<<>>, DataLines(raw_data), t_now)

\* WeatherDataProcessor.parse_weather_data(data_type, raw_data)
parse_weather_data(data_type, raw_data, t_now) ==
    IF data_type = "asos" THEN parse_asos_raw(raw_data, t_now)
    ELSE IF data_type = "pm10" THEN parse_pm10_raw(raw_data, t_now)
    ELSE IF data_type = "uv" THEN parse_uv_raw(raw_data, t_now)
    ELSE <<>>

----------------------------------------------------------------------------
(* Inputs of the parsers *)

\* most lines of one payload
MaxLines == 3

SP == <<" ">>
COMMA == <<",">>

\* strftime("%Y%m%d%H%M") of a timestamp: the twelve-digit token of a line
Token12(ts) ==
    Pad(ts.year, 4) \o Pad(ts.month, 2) \o Pad(ts.day, 2)
        \o Pad(ts.hour, 2) \o Pad(ts.minute, 2)

T0830 == Timestamp(2025, 6, 15, 8, 30, 0)

Tok0800 == Token12(T0800)
Tok0830 == Token12(T0830)
\* ten digits: the year without its century
TokShortYear == SubSeq(Token12(T1400), 3, 12)
\* eight digits: neither of the two lengths
TokWrongLength == SubSeq(Token12(T0800), 1, 8)
\* twelve digits with month 13
TokInvalidDate == Pad(2025, 4) \o Pad(13, 2) \o Pad(15, 2) \o Pad(8, 2) \o Pad(0, 2)

BadTimestampTokens == {TokWrongLength, TokInvalidDate}

AsosLineSet ==
    {Tok0800 \o SP \o S108 \o SP \o V5p2.s,
     Tok0830 \o SP \o S108 \o SP \o VNeg3.s,
     TokShortYear \o SP \o S99 \o SP \o V5p2.s,
     TokWrongLength \o SP \o S108 \o SP \o V5p2.s,
     TokInvalidDate \o SP \o S108 \o SP \o V5p2.s,
     <<"#">> \o SP \o Tok0800 \o SP \o S108 \o SP \o V5p2.s,
     SP \o <<"#">> \o SP \o Tok0800 \o SP \o S108,
     <<>>,
     SP \o SP,
     Tok0800 \o SP \o S108,
     SP \o Tok0800 \o SP \o SP \o S99 \o SP \o V5p2.s \o SP}

Pm10LineSet ==
    {Tok0800 \o COMMA \o S108 \o COMMA \o <<"4", "2">>,
     SP \o Tok0830 \o SP \o COMMA \o SP \o S108 \o COMMA \o <<"4", "2">> \o SP,
     Tok0800 \o COMMA \o S99 \o COMMA \o VAbc.s,
     TokWrongLength \o COMMA \o S108 \o COMMA \o <<"4", "2">>,
     COMMA \o S108 \o COMMA \o <<"4", "2">>,
     <<"#">> \o Tok0800 \o COMMA \o S108 \o COMMA \o <<"4", "2">>,
     <<>>,
     SP \o SP,
     Tok0800 \o COMMA \o S108,
     Tok0800 \o SP \o S108 \o SP \o <<"4", "2">>,
     TokShortYear \o COMMA \o S99 \o COMMA \o <<"7">> \o COMMA \o <<"1">>}

UvLineSet ==
    {Tok0800 \o SP \o S108 \o SP \o V0p03.s \o SP \o V5p2.s \o SP \o V0p03.s,
     Tok0800 \o SP \o S108 \o SP \o VSentinel.s \o SP \o VAbc.s \o SP \o V5p2.s,
     Tok0830 \o SP \o S99 \o SP \o V0p03.s \o SP \o VSentinel.s \o SP \o VSentinel.s,
     TokWrongLength \o SP \o S108 \o SP \o V0p03.s \o SP \o V5p2.s \o SP \o V0p03.s,
     Tok0800 \o SP \o S108 \o SP \o V0p03.s \o SP \o V5p2.s,
     <<"#">> \o SP \o Tok0800 \o SP \o S108 \o SP \o V0p03.s \o SP \o V5p2.s,
     <<>>,
     SP \o SP,
     TokShortYear \o SP \o S99 \o SP \o V0p03.s \o SP \o V5p2.s \o SP \o V0p03.s
         \o SP \o <<"7">>}

Kinds == {"asos", "pm10", "uv"}

LineSet(k) ==
    IF k = "asos" THEN AsosLineSet
    ELSE IF k = "pm10" THEN Pm10LineSet
    ELSE UvLineSet

\* the instants datetime.now(tz=timezone.utc) may return when a call starts
Nows == {Timestamp(2025, 6, 16, 14, 10, 37), T0800}

----------------------------------------------------------------------------
(* A parser call on a payload of at most MaxLines lines *)

InitParse ==
    /\ pc = "parse"
    /\ FrameIdle
    /\ ProcIdle
    /\ StoreIdle
    /\ DagIdle
    /\ kind \in Kinds
    /\ \E n \in 0..MaxLines : lines \in [1..n -> LineSet(kind)]
    /\ payload = Join(lines, "\n")
    /\ now \in Nows
    /\ parsed = <<>>

\* a call of parse_asos_raw(raw_data)
ParseAsos ==
    /\ pc = "parse"
    /\ kind = "asos"
    /\ parsed' = parse_asos_raw(payload, now)
    /\ pc' = "parsed"
    /\ UNCHANGED <<frameVars, kind, lines, payload, now, procVars, storeVars, dagVars>>

\* a call of parse_pm10_raw(raw_data)
ParsePm10 ==
    /\ pc = "parse"
    /\ kind = "pm10"
    /\ parsed' = parse_pm10_raw(payload, now)
    /\ pc' = "parsed"
    /\ UNCHANGED <<frameVars, kind, lines, payload, now, procVars, storeVars, dagVars>>

\* a call of parse_uv_raw(raw_data)
ParseUv ==
    /\ pc = "parse"
    /\ kind = "uv"
    /\ parsed' = parse_uv_raw(payload, now)
    /\ pc' = "parsed"
    /\ UNCHANGED <<frameVars, kind, lines, payload, now, procVars, storeVars, dagVars>>

NextParse == ParseAsos \/ ParsePm10 \/ ParseUv

SpecParse == InitParse /\ [][NextParse]_vars

----------------------------------------------------------------------------
(* Claims about the parsers *)

\* C12: every record parse_asos_raw returns has observed_at on the hour
\* (minute 0, second 0), whatever the timestamp token of its line.
C12_ObservedAtOnTheHour ==
    (pc = "parsed" /\ kind = "asos") =>
        \A i \in DOMAIN parsed :
            /\ parsed[i].observed_at.minute = 0
            /\ parsed[i].observed_at.second = 0
            /\ parsed[i].observed_at.microsecond = 0

\* the tokens the claim counts: comma-separated for PM10, whitespace-separated
\* for the two others
Tokens(k, line) == IF k = "pm10" THEN SplitOn(line, ",") ELSE Split(line)

RequiredTokens(k) == IF k = "uv" THEN 5 ELSE 3

\* a line that is not blank, does not begin with '#' and has the required tokens
Qualifies(k, line) ==
    /\ \E i \in 1..Len(line) : line[i] \notin Whitespace
    /\ line[1] # "#"
    /\ Len(Tokens(k, line)) >= RequiredTokens(k)

\* the lines of the payload once its outer whitespace is stripped
PayloadLines == SplitOn(Strip(payload), "\n")

----------------------------------------------------------------------------
(* create_ml_dataset as one call *)

\* the ASOS loop from the records so far: a row that raises is skipped
RECURSIVE AsosLoop(_, _)
AsosLoop(recs, rows) ==
    IF rows = <<>> THEN recs
    ELSE AsosLoop(IF AsosRaises(Head(rows)) THEN recs
                  ELSE Append(recs, AsosRecord(Head(rows))),
                  Tail(rows))

\* the PM10 loop
RECURSIVE Pm10Loop(_, _)
Pm10Loop(recs, rows) ==
    IF rows = <<>> THEN recs
    ELSE Pm10Loop(MergePm10(recs, Head(rows)), Tail(rows))

\* the UV loop
RECURSIVE UvLoop(_, _)
UvLoop(recs, rows) ==
    IF rows = <<>> THEN recs
    ELSE UvLoop(MergeUv(recs, Head(rows)), Tail(rows))

\* create_ml_dataset(raw_data)
create_ml_dataset(raw_data) ==
    FinalFrame(UvLoop(Pm10Loop(AsosLoop(<<>>, raw_data.asos), raw_data.pm10),
                      raw_data.uv))

----------------------------------------------------------------------------
(* The object store: src/storage/s3_client.py *)

\* the most keys one list_objects_v2 request returns
MaxKeys == 1000

TypeText(data_type) ==
    IF data_type = "asos" THEN <<"a", "s", "o", "s">>
    ELSE IF data_type = "pm10" THEN <<"p", "m", "1", "0">>
    ELSE <<"u", "v">>

\* timestamp.strftime("%Y/%m/%d") of a year of four digits
DateStr(ts) ==
    Pad(ts.year, 4) \o <<"/">> \o Pad(ts.month, 2) \o <<"/">> \o Pad(ts.day, 2)

\* timestamp.strftime("%H%M%S")
TimeStr(ts) == Pad(ts.hour, 2) \o Pad(ts.minute, 2) \o Pad(ts.second, 2)

RawPrefix == <<"r", "a", "w", "/">>
ProcessedPrefix == <<"p", "r", "o", "c", "e", "s", "s", "e", "d", "/">>
MlPrefix == <<"m", "l", "_", "d", "a", "t", "a", "s", "e", "t", "/">>
ParquetSuffix == <<".", "p", "a", "r", "q", "u", "e", "t">>

\* the key of save_raw_weather_data
RawKey(data_type, ts) ==
    RawPrefix \o TypeText(data_type) \o <<"/">> \o DateStr(ts) \o <<"/">>
        \o TimeStr(ts) \o <<".", "t", "x", "t">>

\* the key of save_parsed_weather_data
ParsedKey(data_type, ts) ==
    ProcessedPrefix \o TypeText(data_type) \o <<"/">> \o DateStr(ts) \o <<"/">>
        \o TimeStr(ts) \o <<".", "j", "s", "o", "n">>

\* the key of save_ml_dataset
MlKey(ts) ==
    MlPrefix \o DateStr(ts) \o <<"/">>
        \o <<"d", "a", "t", "a", "s", "e", "t", "_">> \o TimeStr(ts) \o ParquetSuffix

\* index of the object with the key, 0 when there is none
KeyIndex(b, key) ==
    IF \E i \in DOMAIN b : b[i].key = key
    THEN CHOOSE i \in DOMAIN b : b[i].key = key
    ELSE 0

\* put_object: the object replaces the one of the same key or takes its
\* place in key order
PutObject(b, key, body) ==
    LET i == KeyIndex(b, key)
        n == Cardinality({j \in DOMAIN b : StrLess(b[j].key, key)})
    IN  IF i # 0 THEN [b EXCEPT ![i].body = body]
        ELSE SubSeq(b, 1, n) \o <<[key |-> key, body |-> body]>>
                 \o SubSeq(b, n + 1, Len(b))

\* list_objects(prefix): the keys of one list_objects_v2 response, which holds
\* the first MaxKeys keys of the prefix in key order
list_objects(b, prefix) ==
    LET m == SelectSeq(b, LAMBDA o : StartsWith(o.key, prefix))
    IN  [i \in 1..(IF Len(m) < MaxKeys THEN Len(m) ELSE MaxKeys) |-> m[i].key]

\* get_object(key)
get_object(b, key) == b[KeyIndex(b, key)].body

\* sorted(keys)[-1]: the greatest str of keys[lo..hi], by halves
RECURSIVE Greatest(_, _, _)
Greatest(keys, lo, hi) ==
    IF lo = hi THEN keys[lo]
    ELSE LET mid == (lo + hi) \div 2
             a   == Greatest(keys, lo, mid)
             b   == Greatest(keys, mid + 1, hi)
         IN  IF StrLess(a, b) THEN b ELSE a

\* the key load_latest_ml_dataset reads, None when it finds none
latest_key(b) ==
    LET keys         == list_objects(b, MlPrefix)
        parquet_keys == SelectSeq(keys, LAMBDA k : EndsWith(k, ParquetSuffix))
    IN  IF keys = <<>> THEN PyNone
        ELSE IF parquet_keys = <<>> THEN PyNone
        ELSE PyStr(Greatest(parquet_keys, 1, Len(parquet_keys)))

\* load_latest_ml_dataset(): the frame of the latest key, None without one
load_latest_ml_dataset(b) ==
    IF latest_key(b) = PyNone THEN PyNone
    ELSE [t |-> "DataFrame", df |-> get_object(b, latest_key(b).s)]

----------------------------------------------------------------------------
(* process_and_store_weather_data: src/data_ingestion/weather_processor.py *)

\* the argument None where a str is expected: no str has an element of more
\* than one character
NoneText == <<"None">>

\* truth value of an argument that is None or a str
TruthyText(x) == x # NoneText /\ x # <<>>

AsosLine(tok, station, value) == tok \o SP \o station \o SP \o value.s

Pm10Line(tok, station, value) == tok \o COMMA \o station \o COMMA \o value

UvLine(tok, station, uvb, uva, euv) ==
    tok \o SP \o station \o SP \o uvb.s \o SP \o uva.s \o SP \o euv.s

UvPlain == UvLine(Tok0800, S108, V0p03, V5p2, V0p03)
UvSentinelUvb == UvLine(Tok0800, S108, VSentinel, VAbc, V5p2)
UvSentinelUvaEuv == UvLine(Tok0830, S99, V0p03, VSentinel, VSentinel)

\* the raw texts handed to one call
AsosRaws ==
    {NoneText, <<>>,
     AsosLine(Tok0800, S108, V5p2),
     AsosLine(TokWrongLength, S108, V5p2),
     AsosLine(TokInvalidDate, S99, VNeg3),
     AsosLine(Tok0800, S108, V1p2p3),
     <<"#">> \o AsosLine(Tok0800, S108, V5p2)}

Pm10Raws ==
    {NoneText,
     Pm10Line(Tok0800, S108, <<"4", "2">>),
     Pm10Line(TokWrongLength, S108, <<"4", "2">>)}

UvRaws ==
    {NoneText, UvPlain, UvSentinelUvb, UvSentinelUvaEuv,
     Join(<<UvPlain, UvSentinelUvb>>, "\n"),
     Join(<<UvSentinelUvb, UvPlain>>, "\n")}

\* the timestamp argument: None or an instant
TimestampArgs == {PyNone, Timestamp(2025, 6, 16, 14, 0, 5)}

\* line 60-61: the timestamp of the keys
KeyTimestamp == IF inputs.timestamp = PyNone THEN now ELSE inputs.timestamp

RawName(data_type) ==
    IF data_type = "asos" THEN "asos_raw"
    ELSE IF data_type = "pm10" THEN "pm10_raw"
    ELSE "uv_raw"

ParsedName(data_type) ==
    IF data_type = "asos" THEN "asos_parsed"
    ELSE IF data_type = "pm10" THEN "pm10_parsed"
    ELSE "uv_parsed"

RawOf(data_type) ==
    IF data_type = "asos" THEN inputs.asos_raw
    ELSE IF data_type = "pm10" THEN inputs.pm10_raw
    ELSE inputs.uv_raw

\* the three parser calls of one run, the clock read on from t_now
ParseAll(asos_raw, pm10_raw, uv_raw, t_now) ==
    LET parsed_asos == IF TruthyText(asos_raw)
                       THEN parse_asos_raw(asos_raw, t_now) ELSE <<>>
        t_pm10      == Tick(t_now, 2 * Len(parsed_asos))
        parsed_pm10 == IF TruthyText(pm10_raw)
                       THEN parse_pm10_raw(pm10_raw, t_pm10) ELSE <<>>
        t_uv        == Tick(t_pm10, 2 * Len(parsed_pm10))
        parsed_uv   == IF TruthyText(uv_raw)
                       THEN parse_uv_raw(uv_raw, t_uv) ELSE <<>>
    IN  [asos |-> parsed_asos, pm10 |-> parsed_pm10, uv |-> parsed_uv]

InitProcess ==
    /\ pc = "raw_asos"
    /\ FrameIdle
    /\ DagIdle
    /\ kind = <<>>
    /\ lines = <<>>
    /\ payload = <<>>
    /\ now \in Nows
    /\ parsed = <<>>
    /\ \E a \in AsosRaws, p \in Pm10Raws, u \in UvRaws, t \in TimestampArgs :
        inputs = [asos_raw |-> a, pm10_raw |-> p, uv_raw |-> u, timestamp |-> t]
    /\ stored_keys = <<>>
    /\ result = <<>>
    /\ bucket = <<>>
    /\ saved = <<>>
    /\ loaded = <<>>

\* the except branch: the call returns an empty dict
Except ==
    /\ pc' = "returned"
    /\ result' = <<>>
    /\ UNCHANGED <<stored_keys, bucket, saved>>

\* lines 70-75: save the raw text of a source when there is one; put_object
\* may raise
StoreRaw(data_type, here, next) ==
    /\ pc = here
    /\ IF TruthyText(RawOf(data_type))
       THEN \/ /\ bucket' = PutObject(bucket, RawKey(data_type, KeyTimestamp),
                                      RawOf(data_type))
               /\ stored_keys' = (RawName(data_type) :> RawKey(data_type, KeyTimestamp))
                                     @@ stored_keys
               /\ pc' = next
               /\ UNCHANGED <<result, saved>>
            \/ Except
       ELSE /\ pc' = next
            /\ UNCHANGED <<stored_keys, result, bucket, saved>>
    /\ UNCHANGED <<frameVars, parseVars, inputs, loaded, dagVars>>

StoreRawAsos == StoreRaw("asos", "raw_asos", "raw_pm10")
StoreRawPm10 == StoreRaw("pm10", "raw_pm10", "raw_uv")
StoreRawUv == StoreRaw("uv", "raw_uv", "parse")

\* lines 78-80: parse the three texts
ParseSources ==
    /\ pc = "parse"
    /\ parsed' = ParseAll(inputs.asos_raw, inputs.pm10_raw, inputs.uv_raw, now)
    /\ pc' = "parsed_asos"
    /\ UNCHANGED <<frameVars, kind, lines, payload, now, procVars, storeVars, dagVars>>

\* lines 83-88: save the parsed list of a source when it is not empty
StoreParsed(data_type, here, next) ==
    /\ pc = here
    /\ IF parsed[data_type] # <<>>
       THEN \/ /\ bucket' = PutObject(bucket, ParsedKey(data_type, KeyTimestamp),
                                      parsed[data_type])
               /\ stored_keys' = (ParsedName(data_type) :> ParsedKey(data_type, KeyTimestamp))
                                     @@ stored_keys
               /\ pc' = next
               /\ UNCHANGED <<result, saved>>
            \/ Except
       ELSE /\ pc' = next
            /\ UNCHANGED <<stored_keys, result, bucket, saved>>
    /\ UNCHANGED <<frameVars, parseVars, inputs, loaded, dagVars>>

StoreParsedAsos == StoreParsed("asos", "parsed_asos", "parsed_pm10")
StoreParsedPm10 == StoreParsed("pm10", "parsed_pm10", "parsed_uv")
StoreParsedUv == StoreParsed("uv", "parsed_uv", "ml_dataset")

\* lines 91-102: fuse the parsed lists, save the frame when it has rows, and
\* return stored_keys
StoreMlDataset ==
    /\ pc = "ml_dataset"
    /\ IF parsed.asos # <<>> \/ parsed.pm10 # <<>> \/ parsed.uv # <<>>
       THEN LET ml_dataset == create_ml_dataset(parsed)
            IN  /\ merged_df' = ml_dataset
                /\ IF ml_dataset # <<>>
                   THEN \/ /\ bucket' = PutObject(bucket, MlKey(KeyTimestamp), ml_dataset)
                           /\ saved' = Append(saved, [timestamp |-> KeyTimestamp,
                                                      df |-> ml_dataset])
                           /\ stored_keys' = ("ml_dataset" :> MlKey(KeyTimestamp))
                                                 @@ stored_keys
                           /\ result' = stored_keys'
                           /\ pc' = "returned"
                        \/ Except
                   ELSE /\ result' = stored_keys
                        /\ pc' = "returned"
                        /\ UNCHANGED <<stored_keys, bucket, saved>>
       ELSE /\ result' = stored_keys
            /\ pc' = "returned"
            /\ UNCHANGED <<merged_df, stored_keys, bucket, saved>>
    /\ UNCHANGED <<raw_asos, raw_pm10, raw_uv, all_records, df, df_out, score_in,
                   score_out, parseVars, inputs, loaded, dagVars>>

NextProcess ==
    \/ StoreRawAsos \/ StoreRawPm10 \/ StoreRawUv
    \/ ParseSources
    \/ StoreParsedAsos \/ StoreParsedPm10 \/ StoreParsedUv
    \/ StoreMlDataset

SpecProcess == InitProcess /\ [][NextProcess]_vars

----------------------------------------------------------------------------
(* Claims about a call of process_and_store_weather_data *)

\* the text is a timestamp of one of the two accepted lengths
TokenParses(tok) ==
    \/ Len(tok) = 12 /\ ~StrptimeRaises(tok)
    \/ Len(tok) = 10 /\ ~StrptimeRaises(<<"2", "0">> \o tok)

\* the instant a text that is a timestamp denotes
TokenInstant(tok) ==
    IF Len(tok) = 12 THEN Strptime(tok) ELSE Strptime(<<"2", "0">> \o tok)

\* the timestamp token of a line of a source
TimestampToken(data_type, line) == Strip(Tokens(data_type, line)[1])

\* the lines of the raw text of a source that give a record
RecordLines(data_type) ==
    IF TruthyText(RawOf(data_type))
    THEN SelectSeq(SplitOn(Strip(RawOf(data_type)), "\n"),
                   LAMBDA line : Qualifies(data_type, line))
    ELSE <<>>

\* the three parsers have been called
Parsed == parsed # <<>>

\* the call has gone through create_ml_dataset: every save before it succeeded
Fused ==
    /\ pc = "returned"
    /\ Parsed
    /\ \A data_type \in Kinds :
        /\ TruthyText(RawOf(data_type)) => RawName(data_type) \in DOMAIN stored_keys
        /\ parsed[data_type] # <<>> => ParsedName(data_type) \in DOMAIN stored_keys

ClockAt(data_type) ==
    IF data_type = "asos" THEN now
    ELSE IF data_type = "pm10" THEN Tick(now, 2 * Len(parsed.asos))
    ELSE Tick(now, 2 * (Len(parsed.asos) + Len(parsed.pm10)))

IsSentinelText(s) == ~FloatStrRaises(s) /\ FloatStr(s) = (0 - 999) * Scale

\* C13 as stated: a UV line whose UVB, UVA or EUV token equals -999.0 yields
\* a parser record in which that field is missing.
C13_ParserRecordMissing ==
    Parsed =>
        \A i \in DOMAIN parsed.uv :
            LET parts == Split(parsed.uv[i].raw_line)
            IN  /\ IsSentinelText(parts[3]) => parsed.uv[i].value = PyNone
                /\ IsSentinelText(parts[4]) => parsed.uv[i].uva_value = PyNone
                /\ IsSentinelText(parts[5]) => parsed.uv[i].euv_value = PyNone

\* C20: every object a call of process_and_store_weather_data wrote is
\* reported in the key map it returned; an empty map means nothing was written.
C20_WrittenKeysReported ==
    pc = "returned" =>
        \A i \in DOMAIN bucket :
            \E name \in DOMAIN result : result[name] = bucket[i].key

----------------------------------------------------------------------------
(* Further properties of the features and the score (specification SpecFeature) *)

\* C18: pm10_grade is the bucket of the bins (0,30] good, (30,80] moderate,
\* (80,150] unhealthy, (150,infinity) very_unhealthy: every pm10 above 150,
\* however large, is very_unhealthy; without a pm10 there is no grade.
C18_GradeBins ==
    pc = "enriched" =>
        \A i \in DOMAIN df_out :
            LET x == df_out[i].pm10
                g == df_out[i].pm10_grade
            IN  /\ IsNa(x) => IsNa(g)
                /\ (NotNa(x) /\ 0 < Val(x) /\ Val(x) <= 30 * Scale) => g = <<"good">>
                /\ (NotNa(x) /\ 30 * Scale < Val(x) /\ Val(x) <= 80 * Scale)
                        => g = <<"moderate">>
                /\ (NotNa(x) /\ 80 * Scale < Val(x) /\ Val(x) <= 150 * Scale)
                        => g = <<"unhealthy">>
                /\ (NotNa(x) /\ 150 * Scale < Val(x)) => g = <<"very_unhealthy">>

\* two feature rows equal in pm10, rush-hour and weekend, r without a
\* temperature and q with one
C19_Pair(r, q) ==
    /\ r.pm10 = q.pm10
    /\ r.is_rush_hour = q.is_rush_hour
    /\ r.is_weekend = q.is_weekend
    /\ IsNa(r.temperature)
    /\ NotNa(q.temperature)

\* C19: with pm10, rush-hour and weekend fixed, a feature row whose
\* temperature is missing scores at least as much as the same row with any
\* temperature present.
C19_MissingTempAtLeastPresent ==
    pc = "enriched" =>
        \A r, q \in Scored : C19_Pair(r, q) => r.comfort_score >= q.comfort_score

\* witness of C19: a row without a temperature was enriched next to the same
\* row at the optimal temperature 18, and scores more
C19_Witness ==
    /\ pc = "enriched"
    /\ \E r, q \in Scored :
        /\ C19_Pair(r, q)
        /\ q.temperature = Num(18 * Scale)
        /\ r.comfort_score > q.comfort_score

----------------------------------------------------------------------------
(* One run of the DAG weather_data_pipeline: dags/weather_data_pipeline.py *)

\* default_args: 'retries'
Retries == 3

\* default_args: 'retry_delay', in minutes
RetryDelay == 5

FETCH == "fetch_weather_data"
GENERATE == "generate_ml_dataset"
VALIDATE == "validate_pipeline"
END == "end_pipeline"

Tasks == {FETCH, GENERATE, VALIDATE, END}

\* the instant the run starts (schedule '10 * * * *')
RunStart == Timestamp(2025, 6, 16, 14, 10, 3)

\* the clock after a retry delay (within the hour of the run)
AfterRetryDelay(t) == [t EXCEPT !.minute = @ + RetryDelay]

\* the texts the API may answer for a source
Responses(data_type) ==
    (IF data_type = "asos" THEN AsosRaws
     ELSE IF data_type = "pm10" THEN Pm10Raws
     ELSE UvRaws) \ {NoneText}

\* fetch_weather_data: the text of the response, '' when the request raised
fetch_weather_data(response, request_raised) ==
    IF request_raised THEN <<>> ELSE response

\* the frame an earlier run stored
PriorFrame ==
    create_ml_dataset([asos |-> parse_asos_raw(AsosLine(Tok0800, S108, V5p2), T0800),
                       pm10 |-> <<>>, uv |-> <<>>])

\* the ml_dataset/ objects earlier runs left in the bucket: none, one of the
\* day before, or one whose key is later than any key of this run
PriorBuckets ==
    {<<>>,
     PutObject(<<>>, MlKey(Timestamp(2025, 6, 15, 14, 10, 7)), PriorFrame),
     PutObject(<<>>, MlKey(Timestamp(2025, 6, 16, 23, 10, 7)), PriorFrame)}

InitDag ==
    /\ pc = "fetch_asos"
    /\ FrameIdle
    /\ kind = <<>>
    /\ lines = <<>>
    /\ payload = <<>>
    /\ now = RunStart
    /\ parsed = <<>>
    /\ inputs = <<>>
    /\ stored_keys = <<>>
    /\ result = <<>>
    /\ bucket \in PriorBuckets
    /\ saved = <<>>
    /\ loaded = <<>>
    /\ xcom = <<>>
    /\ task_state = [t \in Tasks |-> "none"]
    /\ try_number = [t \in Tasks |-> 0]

\* the records fetched_data holds so far
RecordsSoFar ==
    IF parsed = <<>> THEN 0
    ELSE Len(parsed.asos) + (IF "pm10" \in DOMAIN parsed THEN Len(parsed.pm10) ELSE 0)

\* lines 76-101: one iteration of the loop of fetch_kma_weather_data.  The
\* request may raise, and each of the two saves may raise; an exception gives
\* the source an empty list.  After the last iteration the task returns
\* fetched_data.
FetchType(data_type, here, next) ==
    /\ pc = here
    /\ \E response \in Responses(data_type), request_raised \in BOOLEAN,
          stored \in {"none", "raw", "both"} :
        LET raw_data     == fetch_weather_data(response, request_raised)
            timestamp    == now
            with_raw     == PutObject(bucket, RawKey(data_type, timestamp), raw_data)
            parsed_data  == parse_weather_data(data_type, raw_data,
                                               Tick(now, 2 * RecordsSoFar))
            with_parsed  == PutObject(with_raw, ParsedKey(data_type, timestamp),
                                      parsed_data)
            fetched_data == (data_type :> (IF stored = "both" THEN parsed_data ELSE <<>>))
                                @@ parsed
        IN  /\ bucket' = IF stored = "none" THEN bucket
                         ELSE IF stored = "raw" THEN with_raw
                         ELSE with_parsed
            /\ parsed' = fetched_data
            /\ inputs' = (data_type :> [raw_data       |-> raw_data,
                                        request_raised |-> request_raised,
                                        stored         |-> stored]) @@ inputs
            /\ IF next = "generate"
               THEN /\ xcom' = (FETCH :> fetched_data) @@ xcom
                    /\ task_state' = [task_state EXCEPT ![FETCH] = "success"]
                    /\ try_number' = [try_number EXCEPT ![FETCH] = @ + 1]
               ELSE UNCHANGED dagVars
    /\ pc' = next
    /\ UNCHANGED <<frameVars, kind, lines, payload, now, stored_keys, result,
                   saved, loaded>>

FetchAsos == FetchType("asos", "fetch_asos", "fetch_pm10")
FetchPm10 == FetchType("pm10", "fetch_pm10", "fetch_uv")
FetchUv == FetchType("uv", "fetch_uv", "generate")

\* a try of a task ended with an exception: the task is tried again after the
\* retry delay, and fails for good after Retries retries
TaskRaised(task) ==
    /\ try_number' = [try_number EXCEPT ![task] = @ + 1]
    /\ IF try_number[task] + 1 > Retries
       THEN /\ task_state' = [task_state EXCEPT ![task] = "failed"]
            /\ pc' = "run_failed"
            /\ now' = now
       ELSE /\ task_state' = [task_state EXCEPT ![task] = "up_for_retry"]
            /\ pc' = pc
            /\ now' = AfterRetryDelay(now)

\* a try of a task returned
TaskReturned(task, next) ==
    /\ try_number' = [try_number EXCEPT ![task] = @ + 1]
    /\ task_state' = [task_state EXCEPT ![task] = "success"]
    /\ pc' = next
    /\ now' = now

\* sum(len(data) for data in raw_data.values())
total_records(raw_data) == Len(raw_data.asos) + Len(raw_data.pm10) + Len(raw_data.uv)

\* generate_ml_dataset returns before create_ml_dataset: nothing to fuse
NoRecords_AnySourceEmpty(raw_data) ==
    raw_data.asos = <<>> \/ raw_data.pm10 = <<>> \/ raw_data.uv = <<>>

\* lines 126-132: total_records == 0
NoRecords(raw_data) == total_records(raw_data) = 0

\* lines 107-164: a try of generate_ml_dataset; save_ml_dataset may raise
GenerateMlDataset ==
    /\ pc = "generate"
    /\ LET raw_data == xcom[FETCH]
       IN  IF NoRecords(raw_data)
           THEN /\ xcom' = (GENERATE :> PyNone) @@ xcom
                /\ TaskReturned(GENERATE, "validate")
                /\ UNCHANGED <<merged_df, bucket, saved>>
           ELSE LET ml_df == create_ml_dataset(raw_data)
                IN  /\ merged_df' = ml_df
                    /\ IF ml_df = <<>>
                       THEN /\ xcom' = (GENERATE :> PyNone) @@ xcom
                            /\ TaskReturned(GENERATE, "validate")
                            /\ UNCHANGED <<bucket, saved>>
                       ELSE \/ /\ bucket' = PutObject(bucket, MlKey(now), ml_df)
                               /\ saved' = Append(saved, [timestamp |-> now, df |-> ml_df])
                               /\ xcom' = (GENERATE :> PyStr(MlKey(now))) @@ xcom
                               /\ TaskReturned(GENERATE, "validate")
                            \/ /\ TaskRaised(GENERATE)
                               /\ UNCHANGED <<bucket, saved, xcom>>
    /\ UNCHANGED <<raw_asos, raw_pm10, raw_uv, all_records, df, df_out, score_in,
                   score_out, kind, lines, payload, parsed, procVars, loaded>>

\* validate_pipeline_success without the test of the key
ValidateRaises_NoKeyTest(ml_dataset_key, df_latest) ==
    \/ df_latest = PyNone
    \/ Len(df_latest.df) = 0

\* lines 179-180 and 199-210: validate_pipeline_success raises ValueError
\* when no key was returned, and unless the latest dataset is a frame with a
\* row
ValidateRaises(ml_dataset_key, df_latest) ==
    \/ ml_dataset_key = PyNone
    \/ df_latest = PyNone
    \/ Len(df_latest.df) = 0

\* lines 166-210: a try of validate_pipeline_success; df_latest is the
\* result of load_latest_ml_dataset() at line 198
ValidatePipeline ==
    /\ pc = "validate"
    /\ \E df_latest \in {load_latest_ml_dataset(bucket)} :
        IF ValidateRaises(xcom[GENERATE], df_latest)
        THEN /\ TaskRaised(VALIDATE)
             /\ UNCHANGED loaded
        ELSE /\ loaded' = df_latest
             /\ TaskReturned(VALIDATE, "end")
    /\ UNCHANGED <<frameVars, kind, lines, payload, parsed, procVars, bucket, saved, xcom>>

\* line 242: end_pipeline runs once validate_pipeline has succeeded
EndPipeline ==
    /\ pc = "end"
    /\ task_state[VALIDATE] = "success"
    /\ TaskReturned(END, "run_success")
    /\ UNCHANGED <<frameVars, kind, lines, payload, parsed, procVars, storeVars, xcom>>

NextDag ==
    \/ FetchAsos \/ FetchPm10 \/ FetchUv
    \/ GenerateMlDataset
    \/ ValidatePipeline
    \/ EndPipeline

SpecDag == InitDag /\ [][NextDag]_vars

\* the scheduler runs a try of validate_pipeline, and end_pipeline, once the
\* task is ready
SpecDagFair == SpecDag /\ WF_vars(ValidatePipeline) /\ WF_vars(EndPipeline)

----------------------------------------------------------------------------
(* Claims about a DAG run *)

\* the loop of fetch_kma_weather_data has ended
Fetched == pc \notin {"fetch_asos", "fetch_pm10", "fetch_uv"}

\* the records fetched_data held when the iteration of a source began
RecordsBefore(fetched_data, data_type) ==
    IF data_type = "asos" THEN 0
    ELSE IF data_type = "pm10" THEN Len(fetched_data.asos)
    ELSE Len(fetched_data.asos) + Len(fetched_data.pm10)

\* the fetch of a source failed: its request raised, or one of its two saves
FetchFailed(t) == inputs[t].request_raised \/ inputs[t].stored # "both"

\* nothing but the fetch of source s has failed in the run so far
OnlyFetchFailed(s) ==
    /\ \A t \in Kinds : FetchFailed(t) <=> t = s
    /\ task_state[GENERATE] \in {"none", "success"}
    /\ try_number[GENERATE] <= 1

ZeroFused == task_state[GENERATE] = "success" /\ merged_df = <<>>

\* the ml_dataset/ objects of the bucket
MlObjects == SelectSeq(bucket, LAMBDA o : StartsWith(o.key, MlPrefix))

\* C16: in a run where fusion produces zero fused rows, generate_ml_dataset
\* writes no ml_dataset object, end_pipeline never runs, and
\* validate_pipeline_success ends in failure.
C16_ZeroRowsRunFails ==
    /\ [](ZeroFused =>
            /\ xcom[GENERATE] = PyNone
            /\ saved = <<>>
            /\ MlObjects \in PriorBuckets
            /\ pc \notin {"end", "run_success"}
            /\ task_state[VALIDATE] # "success"
            /\ task_state[END] = "none")
    /\ (ZeroFused ~> (pc = "run_failed" /\ task_state[VALIDATE] = "failed"))

\* witness of C16: the one fetched record was dropped by fusion, nothing was
\* written next to the dataset of an earlier run, and validation failed after
\* its last retry
C16_Witness ==
    /\ pc = "run_failed"
    /\ ZeroFused
    /\ total_records(xcom[FETCH]) = 1
    /\ Len(bucket) > Len(MlObjects)
    /\ Len(MlObjects) = 1
    /\ try_number[VALIDATE] = Retries + 1

----------------------------------------------------------------------------
(* The feature-table store: save_ml_dataset and load_latest_ml_dataset,
   src/storage/s3_client.py *)

\* the calls of save_ml_dataset of one behaviour, after those of earlier runs
MaxSaves == 2

\* the instant run number i of the hourly schedule saves its table; run 0 is
\* that of 2025-01-01 00:10, and the runs end before March
HourlyRun(i) ==
    LET d == i \div 24
    IN  Timestamp(2025, IF d < 31 THEN 1 ELSE 2, IF d < 31 THEN d + 1 ELSE d - 30,
                  i % 24, 10, 7)

\* a feature table of one row; the row tells the tables apart
RunFrame(i) == <<[comfort_score |-> i]>>

\* how many earlier runs have saved their table
EarlierRuns == {0, 1, 2, MaxKeys - 1, MaxKeys}

\* the calls of save_ml_dataset of n earlier runs
EarlierSaves(n) ==
    [i \in 1..n |-> [timestamp |-> HourlyRun(i - 1), df |-> RunFrame(i - 1)]]

\* the bucket after them: the keys of hourly runs are in the order of the runs
EarlierBucket(n) ==
    [i \in 1..n |-> [key |-> MlKey(HourlyRun(i - 1)), body |-> RunFrame(i - 1)]]

\* the timestamps save_ml_dataset is called with: the next two hourly runs,
\* and instants next to the turn of a year, of a month and of a day
SaveTimes ==
    {HourlyRun(MaxKeys), HourlyRun(MaxKeys + 1),
     Timestamp(2024, 12, 31, 23, 59, 59),
     Timestamp(2025, 10, 1, 0, 0, 0)}

InitStore ==
    /\ pc = "store"
    /\ FrameIdle
    /\ ParseIdle
    /\ DagIdle
    /\ stored_keys = <<>>
    /\ result = <<>>
    /\ \E n \in EarlierRuns :
        /\ inputs = [earlier_runs |-> n]
        /\ saved = EarlierSaves(n)
        /\ bucket = EarlierBucket(n)
    /\ loaded = <<>>

\* lines 93-103: save_ml_dataset(df, timestamp)
SaveMlDataset ==
    /\ pc = "store"
    /\ Len(saved) < inputs.earlier_runs + MaxSaves
    /\ \E timestamp \in SaveTimes :
        LET frame == RunFrame(MaxKeys + Len(saved))
        IN  /\ bucket' = PutObject(bucket, MlKey(timestamp), frame)
            /\ saved' = Append(saved, [timestamp |-> timestamp, df |-> frame])
    /\ loaded' = <<>>
    /\ UNCHANGED <<pc, frameVars, parseVars, procVars, dagVars>>

\* lines 105-123: load_latest_ml_dataset()
LoadLatestMlDataset ==
    /\ pc = "store"
    /\ loaded' = load_latest_ml_dataset(bucket)
    /\ UNCHANGED <<pc, frameVars, parseVars, procVars, bucket, saved, dagVars>>

NextStore == SaveMlDataset \/ LoadLatestMlDataset

SpecStore == InitStore /\ [][NextStore]_vars

\* the instants keys are compared at
KeyTimes ==
    SaveTimes \cup
        {HourlyRun(0), HourlyRun(9), HourlyRun(10), HourlyRun(24 * 31 - 1),
         HourlyRun(24 * 31), Timestamp(2025, 1, 1, 0, 0, 0),
         Timestamp(2025, 9, 30, 23, 59, 59), Timestamp(2025, 10, 1, 0, 0, 1)}

\* index of the call with the greatest timestamp among calls lo..hi, the
\* last one of them if two calls have it
RECURSIVE LatestSave(_, _, _)
LatestSave(calls, lo, hi) ==
    IF lo = hi THEN lo
    ELSE LET mid == (lo + hi) \div 2
             i   == LatestSave(calls, lo, mid)
             j   == LatestSave(calls, mid + 1, hi)
         IN  IF TsLess(calls[j].timestamp, calls[i].timestamp) THEN i ELSE j

\* C17: the key of save_ml_dataset is order-preserving, t1 < t2 at another
\* second gives key(t1) < key(t2); and after any sequence of save_ml_dataset
\* calls load_latest_ml_dataset returns the dataset saved with the greatest
\* timestamp.
C17_LatestIsGreatestTimestamp ==
    /\ \A t1, t2 \in KeyTimes :
        Epoch(t1) < Epoch(t2) => StrLess(MlKey(t1), MlKey(t2))
    /\ (loaded # <<>> /\ saved # <<>>) =>
            loaded = [t |-> "DataFrame", df |-> saved[LatestSave(saved, 1, Len(saved))].df]

----------------------------------------------------------------------------
(* Claims about the store writes of a DAG run *)

\* C21: in fetch_kma_weather_data, a source whose fetch and parse both
\* succeed contributes its parsed records to the map handed to fusion,
\* whether the store write of its raw payload or of its normalized records
\* succeeds or fails.
C21_StoreFailureKeepsRecords ==
    Fetched =>
        \A t \in Kinds :
            ~inputs[t].request_raised =>
                xcom[FETCH][t] =
                    parse_weather_data(t, inputs[t].raw_data,
                        Tick(RunStart, 2 * RecordsBefore(xcom[FETCH], t)))

\* C22: whenever validate_pipeline_success succeeds in a run, the dataset it
\* loaded and checked is the object stored under the key generate_ml_dataset
\* returned in the same run, for any prior content of ml_dataset/.
C22_ValidatedIsThisRunsDataset ==
    task_state[VALIDATE] = "success" =>
        /\ latest_key(bucket) = xcom[GENERATE]
        /\ loaded = [t |-> "DataFrame", df |-> get_object(bucket, xcom[GENERATE].s)]

====
